---- MODULE Spec2Model ----
(***************************************************************************)
(* Model of src/src/mcp_server_neurolorap/server.py: the project-root      *)
(* resolution (get_project_root), the module-level terminal construction,  *)
(* the developer-mode read/parse/dispatch/render loop (run_dev_mode) and   *)
(* the tool entrypoint code_collector registered by create_server.         *)
(*                                                                         *)
(* JsonRpcTerminal (parse_request, handle_command) and CodeCollector live  *)
(* in other modules of the package; their outcomes are modelled from the   *)
(* specification's contracts (sections 3, 4.1, 4.2, 6) and, in addition,   *)
(* every call may raise an arbitrary exception.                            *)
(*                                                                         *)
(* Granularity: one action per statement group between two calls that can  *)
(* block or raise (input, parse_request, handle_command, print of the      *)
(* rendering step).  An exception, an asynchronous KeyboardInterrupt       *)
(* included, is raised by the call the loop is currently at.  The locals   *)
(* request and response are never read before the iteration assigns them,  *)
(* so the values a previous iteration left in them are not kept.           *)
(***************************************************************************)
EXTENDS FiniteSets, Integers, Sequences, TLC

VARIABLES
    phase,          \* "init" | "loaded" | "import_failed" : module import
    environ,        \* value of os.environ["MCP_PROJECT_ROOT"], NoneStr if unset
    cwd,            \* current working directory, NoCwd if it was removed
    terminal_root,  \* project_root handed to JsonRpcTerminal at import
    pc,             \* position of run_dev_mode
    line,           \* run_dev_mode local: line
    request,        \* run_dev_mode local: request, of the current iteration
    response,       \* run_dev_mode local: response, of the current iteration
    out,            \* everything printed by run_dev_mode, in order
    reads,          \* number of input() calls that returned a line
    iter,           \* what the current loop iteration did so far: "read",
                    \* "parse", "dispatch", "return", "print", "raise", "done"
    inflight,       \* handle_command calls issued and not yet finished
    raised,         \* exception raised in the current iteration, NoExc if none
    log,            \* records of the module logger at INFO and above since the
                    \* import or, later, since the current invocation began
    calls,          \* number of code_collector invocations so far
    cc_pc,          \* position of the current code_collector invocation
    cc_args,        \* its arguments
    cc_root,        \* its local root_path
    cc_value,       \* what collect_code returned to it, NotReturned if nothing
    cc_exc,         \* the exception raised inside its try block, NoExc if none
    cc_result,      \* how it ended: the string returned, or the unwinding
    cc_prev,        \* the invocation that ended before the current one
    cc_epoch,       \* fs_epoch when the current invocation began
    fs_epoch        \* number of changes made to the filesystem so far

devvars == <<pc, line, request, response, out, reads, iter, inflight, raised>>
envvars == <<phase, environ, cwd, terminal_root, log>>
toolvars == <<calls, cc_pc, cc_args, cc_root, cc_value, cc_exc, cc_result,
              cc_prev, cc_epoch, fs_epoch>>
vars == <<phase, environ, cwd, terminal_root, log,
          pc, line, request, response, out, reads, iter, inflight, raised,
          calls, cc_pc, cc_args, cc_root, cc_value, cc_exc, cc_result,
          cc_prev, cc_epoch, fs_epoch>>

(***************************************************************************)
(* Bounds of the model.                                                    *)
(***************************************************************************)
MaxReads == 2
MaxCalls == 2
MaxFsChanges == 1

(***************************************************************************)
(* Python values.                                                          *)
(***************************************************************************)
NoneStr == "<None>"
NoCwd == "<no cwd>"
Paths == {"/proj", "/work"}
Details == {"d1", "d2"}

\* str(v) as print() and f-strings apply it
PyStr(v) == IF v = NoneStr THEN "None" ELSE v

(***************************************************************************)
(* Exceptions: an exception object is the set of classes it is an instance *)
(* of, plus the text str(e) yields.                                        *)
(***************************************************************************)
NoExc == [bases |-> {}, detail |-> ""]

\* the exception types that occur: KeyboardInterrupt, SystemExit (neither
\* is an Exception), EOFError, FileNotFoundError/PermissionError/OSError,
\* ValueError, TypeError, RuntimeError (a plain Exception), and
\* io.UnsupportedOperation, which derives from both OSError and ValueError
ExcTypes ==
    { {"BaseException", "KeyboardInterrupt"},
      {"BaseException"},
      {"BaseException", "Exception", "EOFError"},
      {"BaseException", "Exception", "OSError"},
      {"BaseException", "Exception", "ValueError"},
      {"BaseException", "Exception", "TypeError"},
      {"BaseException", "Exception"},
      {"BaseException", "Exception", "OSError", "ValueError"} }

Exceptions == [bases : ExcTypes, detail : Details]

IsInstance(e, cls) == cls \in e.bases

(***************************************************************************)
(* get_project_root (server.py 21-29).  pathlib is modelled on the sample  *)
(* values: Path(s) drops a trailing separator, str(Path) gives it back.    *)
(***************************************************************************)
PathOf(s) == IF s = "/proj/" THEN "/proj" ELSE s

EnvValues == {NoneStr, "", "/proj", "/proj/"}
\* the working directory at process start: a directory, or one that was removed
CwdValues == {"/proj", NoCwd}

\* Path.cwd() raises FileNotFoundError when the directory no longer exists
CwdError ==
    [bases |-> {"BaseException", "Exception", "OSError"},
     detail |-> "[Errno 2] No such file or directory"]

\* `not project_root_str`: None and the empty string are falsy
Falsy(s) == s = NoneStr \/ s = ""

LogRecord(lvl, msg) == [level |-> lvl, msg |-> msg]

\* the lookup of MCP_PROJECT_ROOT left out: the working directory is the root
get_project_root_AlwaysCwd(env, dir) ==
    IF dir = NoCwd
    THEN [exc |-> CwdError, value |-> NoneStr, environ |-> env, logged |-> <<>>]
    ELSE [exc |-> NoExc, value |-> dir, environ |-> dir,
          logged |-> <<LogRecord("INFO", "Set MCP_PROJECT_ROOT to: " \o dir)>>]

\* outcome of one call: the exception raised (NoExc if none), the Path
\* returned, the value of MCP_PROJECT_ROOT after the call, the records logged
get_project_root(env, dir) ==
    IF dir = NoCwd
    THEN [exc |-> CwdError, value |-> NoneStr, environ |-> env, logged |-> <<>>]
    ELSE IF Falsy(env)
         THEN [exc |-> NoExc, value |-> dir, environ |-> dir,
               logged |-> <<LogRecord("INFO", "Set MCP_PROJECT_ROOT to: " \o dir)>>]
         ELSE [exc |-> NoExc, value |-> PathOf(env), environ |-> env, logged |-> <<>>]

(***************************************************************************)
(* Module import (server.py 89-90): the terminal is built with the project *)
(* root resolved at that moment; a raising resolution fails the import.    *)
(***************************************************************************)
ModuleLoad ==
    /\ phase = "init"
    /\ LET r == get_project_root(environ, cwd) IN
        IF r.exc # NoExc
        THEN /\ phase' = "import_failed"
             /\ UNCHANGED <<environ, terminal_root, log>>
        ELSE /\ phase' = "loaded"
             /\ environ' = r.environ
             /\ terminal_root' = r.value
             /\ log' = log \o r.logged
    /\ UNCHANGED cwd
    /\ UNCHANGED devvars
    /\ UNCHANGED toolvars

(***************************************************************************)
(* JsonRpcTerminal.parse_request, from the specification (4.1): a pure     *)
(* function of the line giving a Request (a mapping with a non-empty       *)
(* method and its params) or "absent" (None).                              *)
(***************************************************************************)
Absent == [isdict |-> FALSE, keys |-> {}, method |-> NoneStr, params |-> <<>>]

Req(m, p) ==
    [isdict |-> TRUE, keys |-> {"method", "params"}, method |-> m, params |-> p]

Lines == {"", "  ", "exit", "help", "collect", "collect ./README.md", "frobnicate"}

parse_request(l) ==
    CASE l = "exit" -> Req("exit", <<>>)
      [] l = "help" -> Req("help", <<>>)
      [] l = "collect" -> Req("collect", <<>>)
      [] l = "collect ./README.md" -> Req("collect", <<"./README.md">>)
      [] l = "frobnicate" -> Req("frobnicate", <<>>)
      [] OTHER -> Absent

\* truth value of an Optional[dict]: None and the empty dict are falsy
Truthy(r) == r.isdict /\ r.keys # {}

\* dict.get(key) for the key "method"
GetMethod(r) == IF "method" \in r.keys THEN r.method ELSE NoneStr

\* a usable method: present and non-empty
HasUsableMethod(r) ==
    r.isdict /\ "method" \in r.keys /\ r.method # NoneStr /\ r.method # ""

(***************************************************************************)
(* JsonRpcTerminal.handle_command, from the specification (3, 4.2): a      *)
(* Response carries exactly one of result and error; a failure inside an   *)
(* operation, exit included, comes back as an error Response (7).          *)
(***************************************************************************)
NoError == [isnone |-> TRUE, isdict |-> FALSE, has_message |-> FALSE, message |-> ""]
ErrorObj(m) == [isnone |-> FALSE, isdict |-> TRUE, has_message |-> TRUE, message |-> m]

Ok(v) == [has_error |-> FALSE, error |-> NoError, has_result |-> TRUE, result |-> v]
Err(m) == [has_error |-> TRUE, error |-> ErrorObj(m), has_result |-> FALSE, result |-> NoneStr]

NoResponse == [has_error |-> FALSE, error |-> NoError, has_result |-> FALSE, result |-> NoneStr]

OutputFiles == {"/proj/.neurolora/out.md"}

handle_command(r) ==
    CASE r.method = "exit" -> {Ok(NoneStr), Err("Internal error")}
      [] r.method = "help" -> {Ok("Available commands: collect, help, exit")}
      [] r.method = "collect" /\ r.params = <<>> ->
            {Err("Invalid arguments: input path required")}
      [] r.method = "collect" /\ r.params # <<>> ->
            {Ok(f) : f \in OutputFiles}
            \cup {Err("No files found to process or error occurred")}
            \cup {Err("File system error collecting code: " \o d) : d \in Details}
            \cup {Err("An unexpected error occurred. Check server logs.")}
      [] OTHER -> {Err("Method not found")}

(***************************************************************************)
(* run_dev_mode (server.py 93-132).                                        *)
(***************************************************************************)
Printed(n, t) == [n |-> n, text |-> t]

Banner ==
    << Printed(0, "Starting developer mode terminal..."),
       Printed(0, "Type 'help' for available commands"),
       Printed(0, "Type 'exit' to quit") >>

\* lines 95-97
Start ==
    /\ phase = "loaded"
    /\ pc = "NOT_STARTED"
    /\ out' = Banner
    /\ pc' = "AWAITING_INPUT"
    /\ UNCHANGED <<line, request, response, reads, iter, inflight, raised>>
    /\ UNCHANGED envvars
    /\ UNCHANGED toolvars

\* the empty-line filter left out: every line goes to the parser
AfterInput_NoSkip(l) == "PARSING"

\* where the loop goes once input() has returned l (lines 102-103)
AfterInput(l) == IF l = "" THEN "AWAITING_INPUT" ELSE "PARSING"

\* lines 101-103: input() returns a line
ReadLine(l) ==
    /\ pc = "AWAITING_INPUT"
    /\ reads < MaxReads
    /\ line' = l
    /\ reads' = reads + 1
    /\ iter' = <<"read">>
    /\ raised' = NoExc
    /\ pc' = AfterInput(l)
    /\ request' = Absent
    /\ response' = NoResponse
    /\ UNCHANGED <<out, inflight>>
    /\ UNCHANGED envvars
    /\ UNCHANGED toolvars

\* the test of line 106 left out: whatever the parser returned is dispatched
Dispatchable_NoCheck(r) == TRUE

\* line 106: whether the parsed value goes on to the dispatcher
Dispatchable(r) == Truthy(r)

\* handle_command scheduled but not awaited: the loop reads on at once
AfterCall_NoAwait == "AWAITING_INPUT"

\* position of the loop once handle_command has been called (line 110):
\* the await suspends it until the call finishes
AfterCall == "DISPATCHING"

\* lines 105-110: parse_request returns; an absent request is reported,
\* any other is handed to handle_command
ParseReturn ==
    /\ pc = "PARSING"
    /\ LET r == parse_request(line) IN
        /\ request' = r
        /\ IF Dispatchable(r)
           THEN /\ pc' = AfterCall
                /\ inflight' = inflight + 1
                /\ iter' = iter \o <<"parse", "dispatch">>
                /\ out' = out
           ELSE /\ pc' = "AWAITING_INPUT"
                /\ inflight' = inflight
                /\ iter' = iter \o <<"parse", "print">>
                /\ out' = Append(out, Printed(reads, "Invalid command format"))
    /\ UNCHANGED <<line, response, reads, raised>>
    /\ UNCHANGED envvars
    /\ UNCHANGED toolvars

\* line 110: handle_command returns a response
HandleReturn ==
    /\ pc = "DISPATCHING"
    /\ inflight > 0
    /\ \E resp \in handle_command(request) : response' = resp
    /\ inflight' = inflight - 1
    /\ iter' = Append(iter, "return")
    /\ pc' = "RENDERING"
    /\ UNCHANGED <<line, request, out, reads, raised>>
    /\ UNCHANGED envvars
    /\ UNCHANGED toolvars

\* the rendering step without its elif branch: a result is not printed
RenderBranch_NoElif(resp) ==
    IF resp.has_error /\ ~resp.error.isnone
    THEN IF resp.error.isdict /\ resp.error.has_message THEN "error" ELSE "none"
    ELSE "none"

\* lines 112-117: the branch of the rendering step that prints
RenderBranch(resp) ==
    IF resp.has_error /\ ~resp.error.isnone
    THEN IF resp.error.isdict /\ resp.error.has_message THEN "error" ELSE "none"
    ELSE IF resp.has_result THEN "result" ELSE "none"

RenderText(resp) ==
    CASE RenderBranch(resp) = "error" -> <<"Error: " \o resp.error.message>>
      [] RenderBranch(resp) = "result" -> <<PyStr(resp.result)>>
      [] OTHER -> <<>>

\* the exit test comparing with another method name
BreaksAfter_WrongName(r) == GetMethod(r) = "quit"

\* line 119: whether the loop breaks after rendering
BreaksAfter(r) == GetMethod(r) = "exit"

\* lines 112-120: render the response, then break on exit
Render ==
    /\ pc = "RENDERING"
    /\ out' = out \o [i \in 1..Len(RenderText(response)) |->
                        Printed(reads, RenderText(response)[i])]
    /\ iter' = iter \o [i \in 1..Len(RenderText(response)) |-> "print"] \o <<"done">>
    /\ pc' = IF BreaksAfter(request) THEN "TERMINATED" ELSE "AWAITING_INPUT"
    /\ UNCHANGED <<line, request, response, reads, inflight, raised>>
    /\ UNCHANGED envvars
    /\ UNCHANGED toolvars

\* the first except clause widened to ValueError: a value failure ends the loop
Handler_ValueErrorBreaks(e) ==
    IF IsInstance(e, "KeyboardInterrupt") \/ IsInstance(e, "EOFError")
       \/ IsInstance(e, "ValueError") THEN "break"
    ELSE IF IsInstance(e, "TypeError") THEN "type"
    ELSE IF IsInstance(e, "Exception") THEN "unexpected"
    ELSE "propagate"

\* the first except clause without EOFError: end-of-input is reported as an
\* unexpected error and the loop goes on
Handler_NoEOF(e) ==
    IF IsInstance(e, "KeyboardInterrupt") THEN "break"
    ELSE IF IsInstance(e, "ValueError") THEN "value"
    ELSE IF IsInstance(e, "TypeError") THEN "type"
    ELSE IF IsInstance(e, "Exception") THEN "unexpected"
    ELSE "propagate"

\* lines 122-130: the except clause that handles e, in clause order
Handler(e) ==
    IF IsInstance(e, "KeyboardInterrupt") \/ IsInstance(e, "EOFError") THEN "break"
    ELSE IF IsInstance(e, "ValueError") THEN "value"
    ELSE IF IsInstance(e, "TypeError") THEN "type"
    ELSE IF IsInstance(e, "Exception") THEN "unexpected"
    ELSE "propagate"

HandlerText(e) ==
    CASE Handler(e) = "value" -> <<"Value error: " \o e.detail>>
      [] Handler(e) = "type" -> <<"Type error: " \o e.detail>>
      [] Handler(e) = "unexpected" -> <<"Unexpected error: " \o e.detail>>
      [] OTHER -> <<>>

TryBody == {"AWAITING_INPUT", "PARSING", "DISPATCHING", "RENDERING"}

\* the call the loop is at (input, parse_request, handle_command, print)
\* raises e: lines 122-130
Raise(e) ==
    /\ pc \in TryBody
    /\ Handler(e) \in {"break", "propagate"} \/ pc # "AWAITING_INPUT" \/ reads < MaxReads
    /\ reads' = IF pc = "AWAITING_INPUT" /\ reads < MaxReads THEN reads + 1 ELSE reads
    /\ inflight' = IF pc = "DISPATCHING" THEN inflight - 1 ELSE inflight
    /\ iter' = IF pc = "AWAITING_INPUT" THEN <<"raise">> ELSE Append(iter, "raise")
    /\ out' = out \o [i \in 1..Len(HandlerText(e)) |-> Printed(reads', HandlerText(e)[i])]
    /\ pc' = CASE Handler(e) = "break" -> "TERMINATED"
               [] Handler(e) = "propagate" -> "PROPAGATED"
               [] OTHER -> "AWAITING_INPUT"
    /\ raised' = e
    /\ request' = IF pc = "AWAITING_INPUT" THEN Absent ELSE request
    /\ response' = IF pc = "AWAITING_INPUT" THEN NoResponse ELSE response
    /\ UNCHANGED line
    /\ UNCHANGED envvars
    /\ UNCHANGED toolvars

\* run_dev_mode returning without its last print
Farewell_NoPrint ==
    /\ pc = "TERMINATED"
    /\ out' = out
    /\ pc' = "RETURNED"
    /\ UNCHANGED <<line, request, response, reads, iter, inflight, raised>>
    /\ UNCHANGED envvars
    /\ UNCHANGED toolvars

\* line 132
Farewell ==
    /\ pc = "TERMINATED"
    /\ out' = Append(out, Printed(reads, "\nExiting developer mode"))
    /\ pc' = "RETURNED"
    /\ UNCHANGED <<line, request, response, reads, iter, inflight, raised>>
    /\ UNCHANGED envvars
    /\ UNCHANGED toolvars

(***************************************************************************)
(* create_server and its tool code_collector (server.py 32-86).  The       *)
(* DEBUG records (lines 43-49, 58-60) carry nothing but the arguments and  *)
(* are not kept in log.                                                    *)
(***************************************************************************)
NoArgs == [input_path |-> NoneStr, title |-> NoneStr, subproject_id |-> NoneStr]
ArgValues ==
    { [input_path |-> "./README.md", title |-> "Code Collection",
       subproject_id |-> NoneStr],
      [input_path |-> "./does-not-exist", title |-> "Code Collection",
       subproject_id |-> "sub"] }

NotReturned == "<not returned>"
NoResult == [kind |-> "none", text |-> ""]
Returned(t) == [kind |-> "returned", text |-> t]
Unwound == [kind |-> "propagated", text |-> ""]

\* values collect_code returns: an output location, or None / an empty value
CollectValues == OutputFiles \cup {NoneStr, ""}

\* lines 32-86: the server is created and the tool registered
create_server ==
    /\ phase = "loaded"
    /\ pc = "NOT_STARTED"
    /\ phase' = "serving"
    /\ UNCHANGED <<environ, cwd, terminal_root, log>>
    /\ UNCHANGED devvars
    /\ UNCHANGED toolvars

NoCall ==
    [args |-> NoArgs, root |-> NoneStr, value |-> NotReturned,
     exc |-> NoExc, result |-> NoResult, epoch |-> -1]

\* the invocation that just ended, as it is remembered; epoch is the state
\* of the filesystem it ran in, -1 if the filesystem changed while it ran
EndedCall ==
    [args |-> cc_args, root |-> cc_root, value |-> cc_value,
     exc |-> cc_exc, result |-> cc_result,
     epoch |-> IF fs_epoch = cc_epoch THEN fs_epoch ELSE -1]

\* the host invokes the tool (lines 37-49)
Invoke(a) ==
    /\ phase = "serving"
    /\ cc_pc \in {"idle", "done"}
    /\ calls < MaxCalls
    /\ calls' = calls + 1
    /\ cc_args' = a
    /\ cc_pc' = "resolving"
    /\ cc_root' = NoneStr
    /\ cc_value' = NotReturned
    /\ cc_exc' = NoExc
    /\ cc_result' = NoResult
    /\ cc_prev' = IF cc_pc = "done" THEN EndedCall ELSE cc_prev
    /\ cc_epoch' = fs_epoch
    /\ log' = <<>>
    /\ UNCHANGED fs_epoch
    /\ UNCHANGED <<phase, environ, cwd, terminal_root>>
    /\ UNCHANGED devvars

\* the clauses without the final `except Exception`: an unexpected failure
\* unwinds to the caller
ToolHandler_NoCatchAll(e) ==
    IF IsInstance(e, "OSError") THEN "fs"
    ELSE IF IsInstance(e, "ValueError") THEN "value"
    ELSE IF IsInstance(e, "TypeError") THEN "type"
    ELSE "propagate"

\* the clauses without `except ValueError`: a value failure is handled as
\* an unexpected one
ToolHandler_NoValueClause(e) ==
    IF IsInstance(e, "OSError") THEN "fs"
    ELSE IF IsInstance(e, "TypeError") THEN "type"
    ELSE IF IsInstance(e, "Exception") THEN "unexpected"
    ELSE "propagate"

\* lines 69-84: the except clause that handles e, in clause order
ToolHandler(e) ==
    IF IsInstance(e, "OSError") THEN "fs"
    ELSE IF IsInstance(e, "ValueError") THEN "value"
    ELSE IF IsInstance(e, "TypeError") THEN "type"
    ELSE IF IsInstance(e, "Exception") THEN "unexpected"
    ELSE "propagate"

\* lines 69-84: what the clause logs
ToolLogged(e) ==
    CASE ToolHandler(e) = "fs" ->
            <<LogRecord("WARNING", "File system error collecting code: " \o e.detail)>>
      [] ToolHandler(e) = "value" ->
            <<LogRecord("WARNING", "Invalid input: " \o e.detail)>>
      [] ToolHandler(e) = "type" ->
            <<LogRecord("WARNING", "Type error: " \o e.detail)>>
      [] ToolHandler(e) = "unexpected" ->
            <<LogRecord("ERROR", "Unexpected error collecting code: " \o e.detail)>>
      [] OTHER -> <<>>

\* the last clause returning error_msg instead of the fixed text
ToolFailure_LeaksDetail(e) ==
    CASE ToolHandler(e) = "fs" ->
            Returned("File system error collecting code: " \o e.detail)
      [] ToolHandler(e) = "value" -> Returned("Invalid input: " \o e.detail)
      [] ToolHandler(e) = "type" -> Returned("Type error: " \o e.detail)
      [] ToolHandler(e) = "unexpected" ->
            Returned("Unexpected error collecting code: " \o e.detail)
      [] OTHER -> Unwound

\* lines 69-84: how the invocation ends when e was raised in the try block
ToolFailure(e) ==
    CASE ToolHandler(e) = "fs" ->
            Returned("File system error collecting code: " \o e.detail)
      [] ToolHandler(e) = "value" -> Returned("Invalid input: " \o e.detail)
      [] ToolHandler(e) = "type" -> Returned("Type error: " \o e.detail)
      [] ToolHandler(e) = "unexpected" ->
            Returned("An unexpected error occurred. Check server logs.")
      [] OTHER -> Unwound

\* the try block is left with exception e
Fail(e) ==
    /\ cc_exc' = e
    /\ cc_result' = ToolFailure(e)
    /\ log' = log \o ToolLogged(e)
    /\ cc_pc' = "done"

\* line 52: root_path = get_project_root()
ResolveRoot ==
    /\ cc_pc = "resolving"
    /\ LET r == get_project_root(environ, cwd) IN
        IF r.exc # NoExc
        THEN /\ Fail(r.exc)
             /\ UNCHANGED <<environ, cc_root>>
        ELSE /\ environ' = r.environ
             /\ cc_root' = r.value
             /\ log' = log \o r.logged
             /\ cc_pc' = "constructing"
             /\ UNCHANGED <<cc_exc, cc_result>>
    /\ UNCHANGED <<phase, cwd, terminal_root, calls, cc_args, cc_value>>
    /\ UNCHANGED <<cc_prev, cc_epoch, fs_epoch>>
    /\ UNCHANGED devvars

(***************************************************************************)
(* CodeCollector, from the specification (6, 8): what the constructor and  *)
(* collect_code do is determined by the project root, the arguments and    *)
(* the filesystem.  An invocation that repeats the previous one on an      *)
(* unchanged filesystem gets the previous outcome (value returned, or      *)
(* exception raised).                                                      *)
(***************************************************************************)
Repeats ==
    /\ cc_prev.root # NoneStr
    /\ cc_prev.args = cc_args
    /\ cc_prev.root = cc_root
    /\ cc_prev.epoch = fs_epoch
    /\ cc_epoch = fs_epoch

CollaboratorMay(v, e) == Repeats => (cc_prev.value = v /\ cc_prev.exc = e)

\* lines 53-57: CodeCollector(...) returns the collector
Construct ==
    /\ cc_pc = "constructing"
    /\ cc_pc' = "collecting"
    /\ log' = Append(log, LogRecord("INFO", "Starting code collection"))
    /\ UNCHANGED <<phase, environ, cwd, terminal_root>>
    /\ UNCHANGED <<calls, cc_args, cc_root, cc_value, cc_exc, cc_result>>
    /\ UNCHANGED <<cc_prev, cc_epoch, fs_epoch>>
    /\ UNCHANGED devvars

\* the test of line 63 left out: every returned value is reported as a success
CollectResult_NoCheck(v) == "Code collection complete!\nOutput file: " \o PyStr(v)

\* lines 63-67: the string returned for the value collect_code gave
CollectResult(v) ==
    IF Falsy(v)
    THEN "No files found to process or error occurred"
    ELSE "Code collection complete!\nOutput file: " \o PyStr(v)

\* lines 62-67: collect_code returns v
CollectReturn(v) ==
    /\ cc_pc = "collecting"
    /\ CollaboratorMay(v, NoExc)
    /\ cc_value' = v
    /\ cc_result' = Returned(CollectResult(v))
    /\ cc_pc' = "done"
    /\ UNCHANGED envvars
    /\ UNCHANGED <<calls, cc_args, cc_root, cc_exc>>
    /\ UNCHANGED <<cc_prev, cc_epoch, fs_epoch>>
    /\ UNCHANGED devvars

\* lines 53-55, 62: the CodeCollector constructor or collect_code raises e
ToolRaise(e) ==
    /\ cc_pc \in {"constructing", "collecting"}
    /\ CollaboratorMay(NotReturned, e)
    /\ Fail(e)
    /\ UNCHANGED <<phase, environ, cwd, terminal_root>>
    /\ UNCHANGED <<calls, cc_args, cc_root, cc_value>>
    /\ UNCHANGED <<cc_prev, cc_epoch, fs_epoch>>
    /\ UNCHANGED devvars

\* the working directory of the process changes, or is removed, between
\* invocations (read by Path.cwd() at line 23); code_collector has no await,
\* so nothing else of the process runs while an invocation does
Chdir(d) ==
    /\ phase = "serving"
    /\ cc_pc \in {"idle", "done"}
    /\ d # cwd
    /\ d = NoCwd => fs_epoch < MaxFsChanges
    /\ cwd' = d
    /\ fs_epoch' = IF d = NoCwd THEN fs_epoch + 1 ELSE fs_epoch
    /\ UNCHANGED <<phase, environ, terminal_root, log>>
    /\ UNCHANGED devvars
    /\ UNCHANGED <<calls, cc_pc, cc_args, cc_root, cc_value, cc_exc, cc_result>>
    /\ UNCHANGED <<cc_prev, cc_epoch>>

\* files under the project root are created, changed or removed
FsChange ==
    /\ phase = "serving"
    /\ fs_epoch < MaxFsChanges
    /\ fs_epoch' = fs_epoch + 1
    /\ UNCHANGED envvars
    /\ UNCHANGED devvars
    /\ UNCHANGED <<calls, cc_pc, cc_args, cc_root, cc_value, cc_exc, cc_result>>
    /\ UNCHANGED <<cc_prev, cc_epoch>>

(***************************************************************************)
(* The developer-mode program: import, then run_dev_mode.                  *)
(***************************************************************************)
Init ==
    /\ phase = "init"
    /\ environ \in EnvValues
    /\ cwd \in CwdValues
    /\ terminal_root = NoneStr
    /\ pc = "NOT_STARTED"
    /\ line = ""
    /\ request = Absent
    /\ response = NoResponse
    /\ out = <<>>
    /\ reads = 0
    /\ iter = <<>>
    /\ inflight = 0
    /\ raised = NoExc
    /\ log = <<>>
    /\ calls = 0
    /\ cc_pc = "idle"
    /\ cc_args = NoArgs
    /\ cc_root = NoneStr
    /\ cc_value = NotReturned
    /\ cc_exc = NoExc
    /\ cc_result = NoResult
    /\ cc_prev = NoCall
    /\ cc_epoch = 0
    /\ fs_epoch = 0

Next ==
    \/ ModuleLoad
    \/ Start
    \/ \E l \in Lines : ReadLine(l)
    \/ ParseReturn
    \/ HandleReturn
    \/ \E e \in Exceptions : Raise(e)
    \/ Render
    \/ Farewell

Spec == Init /\ [][Next]_vars

\* line 132 follows the loop directly: once the loop is left it runs
SpecLive == Spec /\ WF_vars(Farewell)

(***************************************************************************)
(* The server program: import, create_server, then tool invocations.       *)
(***************************************************************************)
NextTool ==
    \/ ModuleLoad
    \/ create_server
    \/ \E a \in ArgValues : Invoke(a)
    \/ ResolveRoot
    \/ Construct
    \/ \E v \in CollectValues : CollectReturn(v)
    \/ \E e \in Exceptions : ToolRaise(e)
    \/ \E d \in Paths \cup {NoCwd} : Chdir(d)
    \/ FsChange

SpecTool == Init /\ [][NextTool]_vars

(***************************************************************************)
(* Properties of run_dev_mode.                                             *)
(***************************************************************************)
Range(q) == {q[i] : i \in DOMAIN q}
Last(q) == q[Len(q)]
OutTexts == {out[i].text : i \in DOMAIN out}

\* end-of-input or interrupt
IsSignal(e) == IsInstance(e, "KeyboardInterrupt") \/ IsInstance(e, "EOFError")

\* the current iteration ran to the end of the try body (line 119)
IterationDone == iter # <<>> /\ Last(iter) = "done"

\* the current iteration ended in an except clause
IterationRaised == iter # <<>> /\ Last(iter) = "raise"

\* the loop was left by break
LoopLeft == pc \in {"TERMINATED", "RETURNED"}

\* what the session printed, the farewell line left out
LoopOut == IF pc = "RETURNED" THEN SubSeq(out, 1, Len(out) - 1) ELSE out

\* C1: the loop is left by break only when the request just dispatched and
\* rendered has method exit, or when an end-of-input or interrupt was raised;
\* an exception that is an Exception and no such signal never ends the loop
\* (neither by break nor by unwinding): it is caught and the loop is back at
\* AWAITING_INPUT.
C1_TerminatesOnlyOnExitOrSignal ==
    /\ LoopLeft =>
          \/ IterationDone /\ GetMethod(request) = "exit"
          \/ IterationRaised /\ IsSignal(raised)
    /\ pc = "PROPAGATED" =>
          IterationRaised /\ ~IsInstance(raised, "Exception") /\ ~IsSignal(raised)
    /\ (IterationRaised /\ IsInstance(raised, "Exception") /\ ~IsSignal(raised)) =>
          pc = "AWAITING_INPUT"

\* a ValueError and a plain Exception were caught, and the session then ended
\* by exit
C1_Witness ==
    /\ pc = "TERMINATED"
    /\ IterationDone
    /\ GetMethod(request) = "exit"
    /\ "Value error: d1" \in OutTexts

\* C2: the step that completes the rendering of a response prints it and
\* leaves the loop exactly when the dispatched request has method exit,
\* otherwise it goes back to AWAITING_INPUT; once the loop is left no line is
\* read any more.
C2_ExitAfterRendering ==
    [][ /\ (pc = "RENDERING" /\ IterationDone')
            => /\ Len(out') = Len(out) + 1
               /\ Last(out').n = reads
               /\ pc' = IF request.method = "exit" THEN "TERMINATED"
                        ELSE "AWAITING_INPUT"
        /\ LoopLeft => (reads' = reads /\ line' = line /\ pc' = "RETURNED")
      ]_vars

\* an exit request was rendered and the loop left, after an earlier request
\* that was rendered and followed by another read
C2_Witness ==
    /\ pc = "TERMINATED"
    /\ IterationDone
    /\ request.method = "exit"
    /\ reads = 2
    /\ Len(out) = 5
    /\ out[4].n = 1
    /\ Last(out) = Printed(2, "None")

\* C3: an end-of-input or interrupt raised by input() moves the loop to
\* TERMINATED in that very step: nothing is parsed, dispatched or printed.
C3_SignalAtInputTerminates ==
    [][ (pc = "AWAITING_INPUT" /\ raised' # NoExc /\ IsSignal(raised'))
            => /\ pc' = "TERMINATED"
               /\ out' = out
               /\ inflight' = inflight
               /\ iter' = <<"raise">>
               /\ request' = Absent
               /\ response' = NoResponse
      ]_vars

\* input() raised EOFError and the loop is left
C3_Witness ==
    /\ pc = "TERMINATED"
    /\ iter = <<"raise">>
    /\ IsInstance(raised, "EOFError")
    /\ reads = 1

\* C4: at most one handle_command call per line read, none in flight while
\* the loop waits for the next line, and the output is in the order of the
\* lines read.
C4_OneRequestAtATime ==
    /\ inflight \in {0, 1}
    /\ pc = "AWAITING_INPUT" => inflight = 0
    /\ inflight = 1 => pc = "DISPATCHING"
    /\ Cardinality({i \in DOMAIN iter : iter[i] = "dispatch"}) <= 1
    /\ \A i \in DOMAIN iter :
          (iter[i] = "dispatch" /\ pc # "DISPATCHING")
              => (i < Len(iter) /\ iter[i + 1] \in {"return", "raise"})
    /\ \A i, j \in DOMAIN out : i < j => out[i].n <= out[j].n

\* a second request is in flight after the first one's response was printed
C4_Witness ==
    /\ pc = "DISPATCHING"
    /\ inflight = 1
    /\ reads = 2
    /\ Len(out) = 4
    /\ out[4].n = 1
    /\ out[4].text = "/proj/.neurolora/out.md"

\* C5: a value handed to handle_command has a present, non-empty method.
C5_NoMethodNeverDispatched ==
    "dispatch" \in Range(iter) => HasUsableMethod(request)

\* a parsed request is at the dispatcher, after a line the parser rejected
C5_Witness ==
    /\ pc = "DISPATCHING"
    /\ request = parse_request(line)
    /\ "Invalid command format" \in OutTexts

\* C6: when the parser returns absent for the line read, the loop prints
\* "Invalid command format", calls no dispatcher and waits for the next line.
C6_AbsentIsReported ==
    ("parse" \in Range(iter) /\ parse_request(line) = Absent)
        => /\ pc = "AWAITING_INPUT"
           /\ "dispatch" \notin Range(iter)
           /\ inflight = 0
           /\ iter = <<"read", "parse", "print">>
           /\ Last(out) = Printed(reads, "Invalid command format")

\* the parser returned absent for a blank line
C6_Witness ==
    /\ line = "  "
    /\ iter = <<"read", "parse", "print">>
    /\ request = Absent

\* C7: after an empty line is read nothing is parsed, dispatched or printed
\* for it and the loop waits for the next line.
C7_EmptyLineSkipped ==
    (iter # <<>> /\ iter[1] = "read" /\ line = "")
        => /\ iter = <<"read">>
           /\ pc = "AWAITING_INPUT"
           /\ inflight = 0
           /\ \A i \in DOMAIN out : out[i].n # reads

\* an empty line was read after a line that was answered
C7_Witness ==
    /\ iter = <<"read">>
    /\ line = ""
    /\ reads = 2
    /\ Len(out) = 4

\* C8: a rendered response printed exactly one line: "Error: " and the
\* error's message when the response carries an error, the result otherwise.
C8_RenderPrintsExactlyOne ==
    IterationDone
        => /\ Cardinality({i \in DOMAIN iter : iter[i] = "print"}) = 1
           /\ Last(LoopOut).n = reads
           /\ Last(LoopOut).text =
                 IF response.has_error /\ ~response.error.isnone
                 THEN "Error: " \o response.error.message
                 ELSE PyStr(response.result)

\* an error response and then a result were rendered
C8_Witness ==
    /\ IterationDone
    /\ reads = 2
    /\ Len(LoopOut) = 5
    /\ LoopOut[4].text = "Error: Method not found"
    /\ LoopOut[5].text = "/proj/.neurolora/out.md"

(***************************************************************************)
(* Properties of code_collector.                                           *)
(***************************************************************************)
SuccessTexts ==
    {"Code collection complete!\nOutput file: " \o PyStr(v) : v \in CollectValues}

\* C9: an invocation in which project-root resolution, the constructor and
\* collect_code returned, or one of them raised an Exception of any kind,
\* ends by returning a text string; nothing unwinds to the caller.
C9_FailuresBecomeText ==
    (cc_pc = "done" /\ (cc_exc = NoExc \/ IsInstance(cc_exc, "Exception")))
        => /\ cc_result.kind = "returned"
           /\ cc_result.text # ""

\* the second invocation failed in project-root resolution, the first one in
\* the collaborator with an unexpected failure; both returned text
C9_Witness ==
    /\ cc_pc = "done"
    /\ calls = 2
    /\ cc_exc = CwdError
    /\ cc_result.kind = "returned"
    /\ cc_prev.exc.bases = {"BaseException", "Exception"}
    /\ cc_prev.result.kind = "returned"

\* C10: for an output location P returned by collect_code the result is
\* "Code collection complete!\nOutput file: P", for an empty or None value it
\* is "No files found to process or error occurred", and no success string is
\* returned for an empty value or after a raised failure.
C10_ReturnOutcomesDistinguished ==
    cc_pc = "done" =>
        /\ (cc_exc = NoExc /\ cc_value \in OutputFiles)
              => cc_result =
                    Returned("Code collection complete!\nOutput file: " \o cc_value)
        /\ (cc_exc = NoExc /\ cc_value \in {NoneStr, ""})
              => cc_result = Returned("No files found to process or error occurred")
        /\ (cc_exc # NoExc \/ cc_value \notin OutputFiles)
              => cc_result.text \notin SuccessTexts

\* collect_code returned an output location and the success string came back
C10_Witness ==
    /\ cc_pc = "done"
    /\ cc_exc = NoExc
    /\ cc_value = "/proj/.neurolora/out.md"
    /\ cc_result.text = "Code collection complete!\nOutput file: /proj/.neurolora/out.md"

\* the last two invocations that ended: the previous one and, once it is
\* done, the current one
EndedCalls ==
    (IF cc_prev = NoCall THEN <<>> ELSE <<cc_prev>>)
    \o (IF cc_pc = "done" THEN <<EndedCall>> ELSE <<>>)

\* an Exception that is no filesystem, permission, value or type failure
IsUnexpected(e) ==
    /\ IsInstance(e, "Exception")
    /\ ~IsInstance(e, "OSError")
    /\ ~IsInstance(e, "ValueError")
    /\ ~IsInstance(e, "TypeError")

OpaqueText == "An unexpected error occurred. Check server logs."

\* C11: every invocation that failed with an unexpected exception returned
\* the fixed text "An unexpected error occurred. Check server logs.", so any
\* two of them returned the same string whatever their details; the details
\* of the invocation that just ended are in an ERROR record it logged.
C11_UnexpectedFailureIsOpaque ==
    /\ \A i \in DOMAIN EndedCalls :
          IsUnexpected(EndedCalls[i].exc)
              => EndedCalls[i].result = Returned(OpaqueText)
    /\ (cc_pc = "done" /\ IsUnexpected(cc_exc))
          => LogRecord("ERROR", "Unexpected error collecting code: "
                                    \o cc_exc.detail) \in Range(log)
    /\ \A i, j \in DOMAIN EndedCalls :
          (IsUnexpected(EndedCalls[i].exc) /\ IsUnexpected(EndedCalls[j].exc))
              => EndedCalls[i].result = EndedCalls[j].result

\* two invocations failed with unexpected exceptions of different details
C11_Witness ==
    /\ Len(EndedCalls) = 2
    /\ IsUnexpected(EndedCalls[1].exc)
    /\ IsUnexpected(EndedCalls[2].exc)
    /\ EndedCalls[1].exc.detail # EndedCalls[2].exc.detail
    /\ EndedCalls[1].result.kind = "returned"

\* the texts of the cases an exception's kinds name
CaseTexts(e) ==
    (IF IsInstance(e, "OSError")
        THEN {"File system error collecting code: " \o e.detail} ELSE {})
    \cup (IF IsInstance(e, "ValueError") THEN {"Invalid input: " \o e.detail} ELSE {})
    \cup (IF IsInstance(e, "TypeError") THEN {"Type error: " \o e.detail} ELSE {})
    \cup (IF IsUnexpected(e) THEN {OpaqueText} ELSE {})

\* C12: a failed invocation returned the text of exactly one case, a case of
\* a kind the exception belongs to: a filesystem or permission failure gives
\* "File system error collecting code: D", a value failure "Invalid input: D",
\* a type failure "Type error: D"; a failure of one kind gives that kind's
\* text, and the one record logged for it carries the same case.
C12_OneCasePerFailure ==
    (cc_pc = "done" /\ IsInstance(cc_exc, "Exception"))
        => /\ cc_result.kind = "returned"
           /\ cc_result.text \in CaseTexts(cc_exc)
           /\ IsInstance(cc_exc, "OSError")
                 => cc_result.text = "File system error collecting code: " \o cc_exc.detail
           /\ (IsInstance(cc_exc, "ValueError") /\ ~IsInstance(cc_exc, "OSError"))
                 => cc_result.text = "Invalid input: " \o cc_exc.detail
           /\ (IsInstance(cc_exc, "TypeError") /\ ~IsInstance(cc_exc, "OSError")
                    /\ ~IsInstance(cc_exc, "ValueError"))
                 => cc_result.text = "Type error: " \o cc_exc.detail
           /\ log # <<>>
           /\ IF IsUnexpected(cc_exc)
              THEN Last(log).level = "ERROR"
              ELSE Last(log) = LogRecord("WARNING", cc_result.text)

\* a failure that is both a filesystem and a value failure was reported as a
\* filesystem failure, after a plain value failure reported as invalid input
C12_Witness ==
    /\ cc_pc = "done"
    /\ cc_exc.bases = {"BaseException", "Exception", "OSError", "ValueError"}
    /\ cc_result.text = "File system error collecting code: d2"
    /\ cc_prev.result.text = "Invalid input: d1"

\* a step in which parse_request or handle_command raised a failure that is
\* no interrupt and no end-of-input
EscapingFailureStep ==
    /\ pc \in {"PARSING", "DISPATCHING"}
    /\ iter' # iter
    /\ Last(iter') = "raise"
    /\ IsInstance(raised', "Exception")
    /\ ~IsSignal(raised')

\* the texts printed by the step
NewTexts == [i \in 1..(Len(out') - Len(out)) |-> out'[Len(out) + i].text]

\* the prefix lines 124-130 print before str(e), by the kind of e
FailurePrefix(e) ==
    IF IsInstance(e, "ValueError") THEN "Value error: "
    ELSE IF IsInstance(e, "TypeError") THEN "Type error: "
    ELSE "Unexpected error: "

\* C13 as stated: a failure escaping parsing or dispatching is printed and the
\* loop goes on to AWAITING_INPUT, and the printed text is the one printed for
\* the same failure with any other details.
C13_GenericMessageSameText ==
    [][EscapingFailureStep
          => /\ pc' = "AWAITING_INPUT"
             /\ Len(NewTexts) = 1
             /\ \A d \in Details :
                   NewTexts = HandlerText([raised' EXCEPT !.detail = d])]_vars

\* C13: a failure escaping parsing or dispatching is caught at the loop
\* boundary and the loop goes on to AWAITING_INPUT; exactly one line is
\* printed, a prefix fixed by the kind of the failure ("Value error: ",
\* "Type error: " or "Unexpected error: ") followed by the failure's details,
\* so two failures that differ only in their details print different texts
\* with the same prefix.
C13_EscapingFailurePrinted ==
    [][EscapingFailureStep
          => /\ pc' = "AWAITING_INPUT"
             /\ NewTexts = <<FailurePrefix(raised') \o raised'.detail>>]_vars

\* two failures of the same kind and different details were printed, each
\* with its details, and the loop awaits input
C13_Witness ==
    /\ pc = "AWAITING_INPUT"
    /\ IterationRaised
    /\ raised.bases = {"BaseException", "Exception"}
    /\ "Unexpected error: d1" \in OutTexts
    /\ "Unexpected error: d2" \in OutTexts

C15_RootResolvedOnceAtStartup ==
    /\ phase = "import_failed" => Falsy(environ)
    /\ phase \in {"loaded", "serving"} => terminal_root = PathOf(environ)
    /\ cc_pc \in {"constructing", "collecting", "done"} => cc_root = terminal_root

\* a step of line 52: get_project_root is called again after the import
LaterResolution == cc_pc = "resolving" /\ cc_pc' # "resolving"

\* C16 as stated: every call of get_project_root after the first returns the
\* path the first call returned and leaves MCP_PROJECT_ROOT as it is,
\* whatever has happened to the working directory in between.
C16_RootStableAfterFirstCall ==
    [][LaterResolution
          => /\ cc_pc' = "constructing"
             /\ cc_exc' = NoExc
             /\ cc_root' = terminal_root
             /\ environ' = environ]_vars

\* the iteration was ended by an interrupt or end-of-input
SignalRaised == IterationRaised /\ IsSignal(raised)

\* C17: a KeyboardInterrupt or EOFError raised at any point of an iteration
\* (input, parsing, dispatching, rendering) leaves the loop with no call in
\* flight and nothing of the iteration printed; from then on no line is
\* read, no response arrives and nothing is printed but the farewell.
C17_SignalAnywhereTerminates ==
    [][/\ SignalRaised'
            => /\ LoopLeft'
               /\ inflight' = 0
               /\ "print" \notin Range(iter')
               /\ "done" \notin Range(iter')
       /\ SignalRaised
            => /\ reads' = reads
               /\ iter' = iter
               /\ response' = response
               /\ out' \in {out, Append(out, Printed(reads, "\nExiting developer mode"))}]_vars

\* an interrupt arrived while handle_command was in flight: the function
\* returned with no response received and none printed
C17_Witness ==
    /\ pc = "RETURNED"
    /\ iter = <<"read", "parse", "dispatch", "raise">>
    /\ IsInstance(raised, "KeyboardInterrupt")
    /\ response = NoResponse
    /\ inflight = 0

\* the request of the current iteration is an exit request that was dispatched
ExitDispatched == GetMethod(request) = "exit" /\ "dispatch" \in Range(iter)

\* C18: an exit request whose dispatch and rendering completed has ended the
\* loop, also when its response carries an error; one for which
\* handle_command or the rendering raised a ValueError, a TypeError or
\* another Exception that is no end-of-input leaves the loop awaiting the
\* next line; and an exit request ends the loop in no other way, unless an
\* interrupt or end-of-input does.
C18_ExitTerminatesIffCompleted ==
    /\ (ExitDispatched /\ IterationDone) => LoopLeft
    /\ (ExitDispatched /\ IterationRaised
            /\ IsInstance(raised, "Exception") /\ ~IsSignal(raised))
          => pc = "AWAITING_INPUT"
    /\ (ExitDispatched /\ LoopLeft) => (IterationDone \/ SignalRaised)

\* an exit request answered with an error ended the loop, after an earlier
\* iteration had printed a value failure and gone on
C18_Witness ==
    /\ pc = "TERMINATED"
    /\ ExitDispatched
    /\ IterationDone
    /\ response.has_error
    /\ Last(out) = Printed(2, "Error: Internal error")
    /\ Printed(1, "Value error: d1") \in Range(out)

FarewellText == "\nExiting developer mode"

\* C19: once the loop is left (exit request, end-of-input or interrupt) the
\* farewell line is printed and the function returns; when it has returned
\* the farewell is the last line printed and was printed once; while the
\* loop runs, and until that last print, it is not in the output.
C19_FarewellOnceAtEnd ==
    /\ [](pc = "RETURNED"
            => /\ out # <<>>
               /\ Last(out).text = FarewellText
               /\ Cardinality({i \in DOMAIN out : out[i].text = FarewellText}) = 1)
    /\ [](pc # "RETURNED" => FarewellText \notin OutTexts)
    /\ [][pc = "TERMINATED"
            => (pc' = "RETURNED" /\ out' = Append(out, Printed(reads, FarewellText)))]_vars
    /\ (pc = "TERMINATED") ~> (pc = "RETURNED")

\* the function returned after end-of-input at the prompt, the farewell
\* printed after a response of the session
C19_Witness ==
    /\ pc = "RETURNED"
    /\ IsInstance(raised, "EOFError")
    /\ iter = <<"raise">>
    /\ Len(out) = Len(Banner) + 2
    /\ Last(out).text = FarewellText

====
